---- MODULE Spec2Model ----
(***************************************************************************)
(* Model of the ESP32 report scheduler (lib/ReportScheduler) driven by a   *)
(* TimeProvider, and of the backoff timer (lib/ApiClient) driven by the    *)
(* millisecond counter, as state machines.                                 *)
(*                                                                         *)
(* A uint32_t timestamp is a pair <<hi, lo>> of 16-bit halves, so that the *)
(* unsigned subtraction of the code keeps its full 32-bit width.           *)
(***************************************************************************)
EXTENDS Integers, Naturals, Sequences, FiniteSets, TLC

VARIABLES
    \* ReportScheduler fields (report_scheduler.h:123-129)
    intervalSeconds,
    alignToSecond,
    state,
    lastSendTime,
    intervalStartTime,
    alignWaitStartTime,
    \* TimeProvider readings (report_scheduler.h:18-30)
    currentTime,
    secondOfMinute,
    timeSynced,
    \* observation of the calls made on the scheduler
    lastCall,       \* "shouldSend" / "recordSend" when that call was the last step, else "none"
    result,         \* value returned by the last shouldSend()
    prevState,      \* scheduler state when the last call was entered
    prevCall,       \* the value lastCall had when the last shouldSend() was entered
    sent,           \* recordSend() has been called at least once
    steady,         \* since the last recordSend(): no setInterval(), clock never stepped back
    \* bookkeeping of the polled runs (SpecLive, SpecDrift)
    ticks,          \* seconds the clock has advanced since construction
    polled,         \* shouldSend() has been called at the current second
    sinceSend,      \* seconds the clock has advanced since the last recordSend()
    sawTrue,        \* some shouldSend() returned true since the last recordSend()
    latency,        \* seconds the clock has advanced since shouldSend() first returned true
    trigger,        \* <<t>>: shouldSend() first returned true at time t, inside the
                    \* alignment window with alignment applying; <<>> otherwise
    anchor,         \* the trigger of the send that the last recordSend() recorded
    sinceAlign,     \* seconds the clock has advanced since shouldSend() entered
                    \* AlignWait; 0 outside AlignWait
    \* observation of the configuration calls (SpecClamp, SpecConfig)
    op,             \* the last constructor / setInterval() / setAlignSecond() call since
                    \* the last recordSend(): its name, its arguments, the value the
                    \* written field had before it, the scheduler state it was made in,
                    \* and whether it was the last step
    \* BackoffTimer fields (api_client.h:80-82)
    currentDelayMs,
    firstFailureTime,
    inFailureState,
    \* millis()
    millis,
    \* observation of the calls made on the backoff timer
    timerCall,      \* the last call made on the timer: "recordFailure" / "recordSuccess",
                    \* "none" for a timer that has not been called since construction
    streak,         \* recordFailure() calls since construction or the last recordSuccess()
    ended,          \* <<n>>: the last recordSuccess() ended a streak of n failures;
                    \* <<>> before the first recordSuccess()
    sinceFirst,     \* milliseconds the counter has advanced since the first
                    \* recordFailure() of the current streak, as <<hi, lo>> with hi not
                    \* bounded by the counter's width; <<0, 0>> outside a streak
    advances,       \* steps the millisecond counter has made
    \* loop() of main.cpp
    pc,             \* the position in loop(): "top", "attempt", "recordSend",
                    \* "recordOutcome", "setInterval", "rebootCheck"; "restarted" after
                    \* ESP.restart()
    path,           \* the path of the last report attempt: "wifiFail", "success",
                    \* "failure"; "none" before the first attempt
    response,       \* interval_seconds of the server's response: <<n>>, or <<>> when the
                    \* response carries none
    calls,          \* the calls made on scheduler and timer after shouldSend() in the
                    \* current (at "top": the last) iteration, in order
    decided,        \* <<b>>: shouldSend() returned b in that iteration
    due,            \* <<b>>: shouldReboot() was b right after the last recordFailure()
                    \* of the loop; <<>> when the loop has recorded no failure
    waits           \* steps the clock has made while the loop ran

schedVars == <<intervalSeconds, alignToSecond, state, lastSendTime,
               intervalStartTime, alignWaitStartTime>>
clockVars == <<currentTime, secondOfMinute, timeSynced>>
obsVars   == <<lastCall, result, prevState, prevCall, sent, steady>>
liveVars  == <<ticks, polled, sinceSend, sawTrue, latency, trigger, anchor, sinceAlign>>
cfgVars   == <<op>>
timerVars == <<currentDelayMs, firstFailureTime, inFailureState, millis,
               timerCall, streak, ended, sinceFirst, advances>>
loopVars  == <<pc, path, response, calls, decided, due, waits>>
vars      == <<schedVars, clockVars, obsVars, liveVars, cfgVars, timerVars, loopVars>>

----------------------------------------------------------------------------
(* Program constants *)

SCHED_DEFAULT_ALIGN_SECOND == 53
SCHED_ALIGNMENT_WINDOW_START == 55
SCHED_MIN_INTERVAL_FOR_ALIGNMENT == 60
SCHED_ALIGNMENT_WINDOW_END == 59
SCHED_MAX_ALIGN_WAIT_SEC == 65
SCHED_MIN_INTERVAL_SEC == 10
SCHED_MAX_INTERVAL_SEC == 1800

DEFAULT_INTERVAL_SEC == 300
MIN_INTERVAL_SEC == 10
MAX_INTERVAL_SEC == 1800
BACKOFF_START_MS == 10000
BACKOFF_MAX_MS == 300000
REBOOT_AFTER_FAILURE_MS == 1800000

STATE_BOOT_SEND     == "STATE_BOOT_SEND"
STATE_INTERVAL_WAIT == "STATE_INTERVAL_WAIT"
STATE_ALIGN_WAIT    == "STATE_ALIGN_WAIT"
STATE_READY_TO_SEND == "STATE_READY_TO_SEND"

SchedulerState == {STATE_BOOT_SEND, STATE_INTERVAL_WAIT, STATE_ALIGN_WAIT,
                   STATE_READY_TO_SEND}

\* a value of the state field that is none of the enumerators
STATE_UNKNOWN == "UNKNOWN"

----------------------------------------------------------------------------
(* uint32_t arithmetic on <<hi, lo>> pairs of 16-bit halves *)

Half == 65536

\* the uint32_t whose value is the natural n (n < 2^31)
U32(n) == <<n \div Half, n % Half>>

\* mutant: a difference below zero is 0
Sub32_Saturates(a, b) ==
    IF a[1] < b[1] \/ (a[1] = b[1] /\ a[2] < b[2])
    THEN <<0, 0>>
    ELSE LET borrow == IF a[2] < b[2] THEN 1 ELSE 0
         IN  <<a[1] - b[1] - borrow, (a[2] - b[2] + Half) % Half>>

\* a - b in uint32_t (wraps modulo 2^32)
Sub32(a, b) ==
    LET borrow == IF a[2] < b[2] THEN 1 ELSE 0
    IN  <<(a[1] - b[1] - borrow + Half) % Half, (a[2] - b[2] + Half) % Half>>

\* a + n in uint32_t for a natural n < 2^30 (wraps modulo 2^32)
Add32(a, n) ==
    LET lo == a[2] + n
    IN  <<(a[1] + lo \div Half) % Half, lo % Half>>

\* a + n for a natural n < 2^30, the high half growing past the 32-bit width
AddWide(a, n) ==
    LET lo == a[2] + n
    IN  <<a[1] + lo \div Half, lo % Half>>

\* a < b and a >= b as unsigned 32-bit values
Lt32(a, b) == a[1] < b[1] \/ (a[1] = b[1] /\ a[2] < b[2])
Ge32(a, b) == ~Lt32(a, b)

----------------------------------------------------------------------------
(* Inputs *)

\* arguments given to the constructor and to setInterval()
IntervalInputs == {5, 59, 60}

\* arguments given to the constructor and to setAlignSecond()
AlignInputs == {-1, 0, 59, 60}

\* readings of TimeProvider::getCurrentTime()
Times == {U32(0), U32(9), U32(10), U32(59), U32(60), U32(124), U32(125)}

\* readings of TimeProvider::getSecondOfMinute()
Seconds == {52, 53, 59}

\* polled runs: seconds the clock advances in a run, and seconds that may pass
\* between shouldSend() returning true and recordSend()
MaxTicks == 130
MaxLatency == 2

\* polled runs with an arbitrary clock: constructor arguments and start times,
\* one start shortly before the uint32_t counter wraps
LiveIntervalInputs == {5, 60}
LiveAlignInputs == {53}
LiveStartTimes == {U32(0), <<Half - 1, Half - 100>>}

\* polled runs with a consistent clock (second of minute = time mod 60) that
\* is synchronized or not
ConsistentAlignInputs == {1, 53, 59}
ConsistentStartTimes == {U32(0), U32(58)}

\* a clock that steps forward and backward, also across the wrap of the
\* uint32_t counter
WrapIntervalInputs == {5, 60}
WrapAlignInputs == {53}
WrapTimes == {U32(0), U32(5), U32(70), <<Half - 1, Half - 70>>, <<Half - 1, Half - 5>>}
WrapSeconds == {52, 53}

\* polled runs with the mock clock of the drift tests
DriftIntervalInputs == {60}
DriftAlignInputs == {53}
DriftStartTimes == {U32(53), U32(0)}

\* clamping runs: arguments below, at, inside, at and above the accepted
\* ranges, given to the constructor and to the setters
ClampIntervalInputs == {-100, 0, 9, 10, 300, 1800, 1801, 5000}
ClampAlignInputs == {-1, 0, 30, 55, 59, 60, 100}
ClampTimes == {U32(0), U32(1800)}

\* configuration runs: the setters are called while the scheduler waits
ConfigIntervalInputs == {5, 60, 300}
ConfigAlignInputs == {0, 30, 59}
ConfigTimes == {U32(0), U32(9), U32(59), U32(60)}
ConfigSeconds == {29, 30, 59}

\* backoff runs: the longest failure streak, the steps the millisecond
\* counter makes and how many of them, and its readings at the start, one
\* just before the unsigned long counter wraps
MaxStreak == 8
MaxAdvances == 3
MillisSteps == {1, 1800000}
BackoffStartMillis == {U32(0), <<Half - 1, Half - 1>>}

\* long backoff runs: the counter advances in steps of 30 minutes and of
\* 2^30 ms, far enough to come round to the reading of the first failure
MaxLongAdvances == 4
LongMillisSteps == {1800000, 1073741824}

\* runs of loop(): how many steps the clock makes and of how many seconds,
\* the seconds of the minute it shows, and the interval_seconds the server
\* answers with (<<>>: none)
MaxLoopWaits == 6
LoopWaits == {9, 1800}
LoopSeconds == {0, 55}
ServerIntervals == {<<>>, <<5>>, <<60>>, <<5000>>}

----------------------------------------------------------------------------
(* ReportScheduler helpers *)

\* mutant: the upper bound is not applied
clampInterval_NoMaximum(interval) ==
    IF interval < SCHED_MIN_INTERVAL_SEC THEN SCHED_MIN_INTERVAL_SEC
    ELSE interval

\* mutant: the comparison is made on the unsigned value, so that a negative
\* argument counts as a large one
clampInterval_Unsigned(interval) ==
    IF interval >= 0 /\ interval < SCHED_MIN_INTERVAL_SEC THEN SCHED_MIN_INTERVAL_SEC
    ELSE IF interval < 0 \/ interval > SCHED_MAX_INTERVAL_SEC THEN SCHED_MAX_INTERVAL_SEC
    ELSE interval

clampInterval(interval) ==
    IF interval < SCHED_MIN_INTERVAL_SEC THEN SCHED_MIN_INTERVAL_SEC
    ELSE IF interval > SCHED_MAX_INTERVAL_SEC THEN SCHED_MAX_INTERVAL_SEC
    ELSE interval

\* mutant: only the upper bound is checked
clampAlignSecond_NoLowerCheck(second) ==
    IF second > 59 THEN SCHED_DEFAULT_ALIGN_SECOND ELSE second

\* mutant: an argument above 59 is cut to 59
clampAlignSecond_Saturates(second) ==
    IF second < 0 THEN SCHED_DEFAULT_ALIGN_SECOND
    ELSE IF second > 59 THEN 59
    ELSE second

clampAlignSecond(second) ==
    IF second < 0 \/ second > 59 THEN SCHED_DEFAULT_ALIGN_SECOND ELSE second

\* mutant: the elapsed time is counted one second too long
hasIntervalElapsed_OffByOne ==
    LET elapsed == Add32(Sub32(currentTime, intervalStartTime), 1)
    IN  Ge32(elapsed, U32(intervalSeconds))

hasIntervalElapsed ==
    LET elapsed == Sub32(currentTime, intervalStartTime)
    IN  Ge32(elapsed, U32(intervalSeconds))

\* mutant: the window starts at the fixed SCHED_ALIGNMENT_WINDOW_START
isAlignedSecond_FixedWindow ==
    LET currentSec == secondOfMinute
    IN  currentSec >= SCHED_ALIGNMENT_WINDOW_START /\ currentSec <= SCHED_ALIGNMENT_WINDOW_END

\* mutant: the window starts one second after alignToSecond
isAlignedSecond_Exclusive ==
    LET currentSec == secondOfMinute
    IN  currentSec > alignToSecond /\ currentSec <= SCHED_ALIGNMENT_WINDOW_END

isAlignedSecond ==
    LET currentSec == secondOfMinute
    IN  currentSec >= alignToSecond /\ currentSec <= SCHED_ALIGNMENT_WINDOW_END

\* mutant: the synchronization of the clock is not consulted
shouldSkipAlignment_NoSyncCheck ==
    intervalSeconds < SCHED_MIN_INTERVAL_FOR_ALIGNMENT

shouldSkipAlignment ==
    \/ intervalSeconds < SCHED_MIN_INTERVAL_FOR_ALIGNMENT
    \/ ~timeSynced

\* mutant: the timeout needs more than SCHED_MAX_ALIGN_WAIT_SEC seconds
hasAlignWaitTimedOut_Strict ==
    LET waitTime == Sub32(currentTime, alignWaitStartTime)
    IN  ~Ge32(U32(SCHED_MAX_ALIGN_WAIT_SEC), waitTime)

hasAlignWaitTimedOut ==
    LET waitTime == Sub32(currentTime, alignWaitStartTime)
    IN  Ge32(waitTime, U32(SCHED_MAX_ALIGN_WAIT_SEC))

----------------------------------------------------------------------------
(* ReportScheduler::shouldSend(): the state it leaves, the value it        *)
(* returns and the alignWaitStartTime it leaves                            *)

Outcome(newState, returned, alignStart) ==
    [state |-> newState, returned |-> returned, alignWaitStartTime |-> alignStart]

\* mutant: the boot send waits for a synchronized clock
bootSendOutcome_NeedsSync ==
    Outcome(state, timeSynced, alignWaitStartTime)

\* case STATE_BOOT_SEND
bootSendOutcome ==
    Outcome(state, TRUE, alignWaitStartTime)

\* mutant: the alignment second is not checked in the call that starts the
\* alignment wait
intervalWaitOutcome_NoImmediateCheck ==
    IF hasIntervalElapsed
    THEN IF shouldSkipAlignment
         THEN Outcome(STATE_READY_TO_SEND, TRUE, alignWaitStartTime)
         ELSE Outcome(STATE_ALIGN_WAIT, FALSE, currentTime)
    ELSE Outcome(state, FALSE, alignWaitStartTime)

\* mutant: alignWaitStartTime is written only when the wait really starts
intervalWaitOutcome_StartOnlyWhenWaiting ==
    IF hasIntervalElapsed
    THEN IF shouldSkipAlignment
         THEN Outcome(STATE_READY_TO_SEND, TRUE, alignWaitStartTime)
         ELSE IF isAlignedSecond
              THEN Outcome(STATE_READY_TO_SEND, TRUE, alignWaitStartTime)
              ELSE Outcome(STATE_ALIGN_WAIT, FALSE, currentTime)
    ELSE Outcome(state, FALSE, alignWaitStartTime)

\* case STATE_INTERVAL_WAIT
intervalWaitOutcome ==
    IF hasIntervalElapsed
    THEN IF shouldSkipAlignment
         THEN Outcome(STATE_READY_TO_SEND, TRUE, alignWaitStartTime)
         ELSE IF isAlignedSecond
              THEN Outcome(STATE_READY_TO_SEND, TRUE, currentTime)
              ELSE Outcome(STATE_ALIGN_WAIT, FALSE, currentTime)
    ELSE Outcome(state, FALSE, alignWaitStartTime)

\* mutant: the timeout returns true without the transition
alignWaitOutcome_NoTransition ==
    IF hasAlignWaitTimedOut
    THEN Outcome(state, TRUE, alignWaitStartTime)
    ELSE IF isAlignedSecond
         THEN Outcome(STATE_READY_TO_SEND, TRUE, alignWaitStartTime)
         ELSE Outcome(state, FALSE, alignWaitStartTime)

\* mutant: the wait ends as soon as alignment no longer applies
alignWaitOutcome_ReleasesOnSkip ==
    IF hasAlignWaitTimedOut \/ shouldSkipAlignment
    THEN Outcome(STATE_READY_TO_SEND, TRUE, alignWaitStartTime)
    ELSE IF isAlignedSecond
         THEN Outcome(STATE_READY_TO_SEND, TRUE, alignWaitStartTime)
         ELSE Outcome(state, FALSE, alignWaitStartTime)

\* mutant: every call that keeps waiting starts the wait again
alignWaitOutcome_RestartsWait ==
    IF hasAlignWaitTimedOut
    THEN Outcome(STATE_READY_TO_SEND, TRUE, alignWaitStartTime)
    ELSE IF isAlignedSecond
         THEN Outcome(STATE_READY_TO_SEND, TRUE, alignWaitStartTime)
         ELSE Outcome(state, FALSE, currentTime)

\* case STATE_ALIGN_WAIT
alignWaitOutcome ==
    IF hasAlignWaitTimedOut
    THEN Outcome(STATE_READY_TO_SEND, TRUE, alignWaitStartTime)
    ELSE IF isAlignedSecond
         THEN Outcome(STATE_READY_TO_SEND, TRUE, alignWaitStartTime)
         ELSE Outcome(state, FALSE, alignWaitStartTime)

\* mutant: ReadyToSend checks the alignment second again
readyToSendOutcome_Rechecks ==
    IF shouldSkipAlignment \/ isAlignedSecond
    THEN Outcome(state, TRUE, alignWaitStartTime)
    ELSE Outcome(STATE_ALIGN_WAIT, FALSE, alignWaitStartTime)

\* case STATE_READY_TO_SEND
readyToSendOutcome ==
    Outcome(state, TRUE, alignWaitStartTime)

\* mutant: the unknown state is left as it is
unknownStateOutcome_KeepsState ==
    Outcome(state, TRUE, alignWaitStartTime)

\* default: unknown state
unknownStateOutcome ==
    Outcome(STATE_BOOT_SEND, TRUE, alignWaitStartTime)

shouldSendOutcome ==
    CASE state = STATE_BOOT_SEND     -> bootSendOutcome
      [] state = STATE_INTERVAL_WAIT -> intervalWaitOutcome
      [] state = STATE_ALIGN_WAIT    -> alignWaitOutcome
      [] state = STATE_READY_TO_SEND -> readyToSendOutcome
      [] OTHER                       -> unknownStateOutcome

----------------------------------------------------------------------------
(* ReportScheduler::getSecondsUntilSend() *)

\* mutant: the remaining interval is topped up with the wait for the
\* alignment second
getSecondsUntilSend_AddsAlignment ==
    IF state = STATE_BOOT_SEND \/ state = STATE_READY_TO_SEND THEN 0
    ELSE LET now == currentTime
         IN  IF state = STATE_INTERVAL_WAIT
             THEN LET elapsed == Sub32(now, intervalStartTime)
                      currentSec == secondOfMinute
                  IN  IF Ge32(elapsed, U32(intervalSeconds))
                      THEN IF shouldSkipAlignment THEN 0
                           ELSE IF currentSec >= alignToSecond THEN 0
                           ELSE alignToSecond - currentSec
                      ELSE LET remaining == intervalSeconds - elapsed[2]
                           IN  IF ~shouldSkipAlignment /\ currentSec < alignToSecond
                               THEN remaining + (alignToSecond - currentSec)
                               ELSE remaining
             ELSE IF state = STATE_ALIGN_WAIT
             THEN LET currentSec == secondOfMinute
                  IN  IF currentSec >= alignToSecond
                         /\ currentSec <= SCHED_ALIGNMENT_WINDOW_END
                      THEN 0
                      ELSE IF currentSec < alignToSecond
                      THEN alignToSecond - currentSec
                      ELSE (60 - currentSec) + alignToSecond
             ELSE 0

\* elapsed is below intervalSeconds where it is cast to int, so its low half
\* is its value
getSecondsUntilSend ==
    IF state = STATE_BOOT_SEND \/ state = STATE_READY_TO_SEND THEN 0
    ELSE LET now == currentTime
         IN  IF state = STATE_INTERVAL_WAIT
             THEN LET elapsed == Sub32(now, intervalStartTime)
                  IN  IF Ge32(elapsed, U32(intervalSeconds))
                      THEN IF shouldSkipAlignment THEN 0
                           ELSE LET currentSec == secondOfMinute
                                IN  IF currentSec >= alignToSecond THEN 0
                                    ELSE alignToSecond - currentSec
                      ELSE LET remaining == intervalSeconds - elapsed[2]
                           IN  remaining
             ELSE IF state = STATE_ALIGN_WAIT
             THEN LET currentSec == secondOfMinute
                  IN  IF currentSec >= alignToSecond
                         /\ currentSec <= SCHED_ALIGNMENT_WINDOW_END
                      THEN 0
                      ELSE IF currentSec < alignToSecond
                      THEN alignToSecond - currentSec
                      ELSE (60 - currentSec) + alignToSecond
             ELSE 0

----------------------------------------------------------------------------
(* BackoffTimer *)

\* unsigned long is 32 bits wide on the ESP32: millis() and firstFailureTime
\* are <<hi, lo>> pairs; currentDelayMs stays below 2 * BACKOFF_MAX_MS, far
\* from the width, and is a plain integer

\* BackoffTimer::BackoffTimer()
BackoffTimerConstruct ==
    /\ currentDelayMs = BACKOFF_START_MS
    /\ firstFailureTime = U32(0)
    /\ inFailureState = FALSE
    /\ timerCall = "none"
    /\ streak = 0
    /\ ended = <<>>
    /\ sinceFirst = <<0, 0>>

\* a fresh timer, with the millisecond counter at its start
BackoffTimerInit ==
    /\ BackoffTimerConstruct
    /\ millis = U32(0)
    /\ advances = 0

getDelayMs == currentDelayMs

\* mutant: a counter reading below firstFailureTime counts as no time passed
getFailureDurationMs_NoWrap ==
    IF ~inFailureState THEN U32(0)
    ELSE IF Lt32(millis, firstFailureTime) THEN U32(0)
    ELSE Sub32(millis, firstFailureTime)

getFailureDurationMs ==
    IF ~inFailureState THEN U32(0)
    ELSE Sub32(millis, firstFailureTime)

\* mutant: the duration has to exceed REBOOT_AFTER_FAILURE_MS
shouldReboot_Strict ==
    IF ~inFailureState THEN FALSE
    ELSE ~Ge32(U32(REBOOT_AFTER_FAILURE_MS), getFailureDurationMs)

shouldReboot ==
    IF ~inFailureState THEN FALSE
    ELSE Ge32(getFailureDurationMs, U32(REBOOT_AFTER_FAILURE_MS))

\* mutant: the doubled delay is not capped
recordFailure_NoCap ==
    /\ IF ~inFailureState
       THEN /\ inFailureState' = TRUE
            /\ firstFailureTime' = millis
            /\ currentDelayMs' = BACKOFF_START_MS
       ELSE /\ currentDelayMs' = currentDelayMs * 2
            /\ UNCHANGED <<inFailureState, firstFailureTime>>
    /\ timerCall' = "recordFailure"
    /\ streak' = streak + 1
    /\ sinceFirst' = IF inFailureState THEN sinceFirst ELSE <<0, 0>>
    /\ UNCHANGED ended

\* mutant: every failure restarts the measurement of the streak
recordFailure_RestartsClock ==
    /\ IF ~inFailureState
       THEN /\ inFailureState' = TRUE
            /\ currentDelayMs' = BACKOFF_START_MS
       ELSE LET doubled == currentDelayMs * 2
            IN  /\ currentDelayMs' = IF doubled < BACKOFF_MAX_MS THEN doubled
                                     ELSE BACKOFF_MAX_MS
                /\ UNCHANGED inFailureState
    /\ firstFailureTime' = millis
    /\ timerCall' = "recordFailure"
    /\ streak' = streak + 1
    /\ sinceFirst' = IF inFailureState THEN sinceFirst ELSE <<0, 0>>
    /\ UNCHANGED ended

\* mutant: the first failure of a streak doubles the delay as well
recordFailure_DoublesFirst ==
    LET doubled == currentDelayMs * 2
        capped == IF doubled < BACKOFF_MAX_MS THEN doubled ELSE BACKOFF_MAX_MS
    IN  /\ IF ~inFailureState
           THEN /\ inFailureState' = TRUE
                /\ firstFailureTime' = millis
                /\ currentDelayMs' = capped
           ELSE /\ currentDelayMs' = capped
                /\ UNCHANGED <<inFailureState, firstFailureTime>>
        /\ timerCall' = "recordFailure"
        /\ streak' = streak + 1
        /\ sinceFirst' = IF inFailureState THEN sinceFirst ELSE <<0, 0>>
        /\ UNCHANGED ended

recordFailure ==
    /\ IF ~inFailureState
       THEN /\ inFailureState' = TRUE
            /\ firstFailureTime' = millis
            /\ currentDelayMs' = BACKOFF_START_MS
       ELSE LET doubled == currentDelayMs * 2
            IN  /\ currentDelayMs' = IF doubled < BACKOFF_MAX_MS THEN doubled
                                     ELSE BACKOFF_MAX_MS
                /\ UNCHANGED <<inFailureState, firstFailureTime>>
    /\ timerCall' = "recordFailure"
    /\ streak' = streak + 1
    /\ sinceFirst' = IF inFailureState THEN sinceFirst ELSE <<0, 0>>
    /\ UNCHANGED ended

\* mutant: the delay is left where the streak took it
recordSuccess_KeepsDelay ==
    /\ inFailureState' = FALSE
    /\ firstFailureTime' = U32(0)
    /\ currentDelayMs' = currentDelayMs
    /\ timerCall' = "recordSuccess"
    /\ streak' = 0
    /\ ended' = <<streak>>
    /\ sinceFirst' = <<0, 0>>

recordSuccess ==
    /\ inFailureState' = FALSE
    /\ firstFailureTime' = U32(0)
    /\ currentDelayMs' = BACKOFF_START_MS
    /\ timerCall' = "recordSuccess"
    /\ streak' = 0
    /\ ended' = <<streak>>
    /\ sinceFirst' = <<0, 0>>

\* loop() has not run
LoopIdle ==
    /\ pc = "top"
    /\ path = "none"
    /\ response = <<>>
    /\ calls = <<>>
    /\ decided = <<>>
    /\ due = <<>>
    /\ waits = 0

----------------------------------------------------------------------------
(* Operations *)

\* ReportScheduler(timeProvider, intervalSeconds, alignToSecond)
ConstructWith(interval, second) ==
    /\ intervalSeconds = clampInterval(interval)
    /\ alignToSecond = clampAlignSecond(second)
    /\ state = STATE_BOOT_SEND
    /\ lastSendTime = U32(0)
    /\ intervalStartTime = U32(0)
    /\ alignWaitStartTime = U32(0)
    /\ lastCall = "none"
    /\ result = FALSE
    /\ prevState = STATE_BOOT_SEND
    /\ prevCall = "none"
    /\ sent = FALSE
    /\ steady = TRUE
    /\ ticks = 0
    /\ polled = FALSE
    /\ sinceSend = 0
    /\ sawTrue = FALSE
    /\ latency = 0
    /\ trigger = <<>>
    /\ anchor = <<>>
    /\ sinceAlign = 0

Construct(intervals, aligns) ==
    \E i \in intervals, a \in aligns : ConstructWith(i, a)

\* the configuration calls are not observed
NoOp == [name |-> "none"]

Unobserved == op = NoOp

Init ==
    /\ Construct(IntervalInputs, AlignInputs)
    /\ Unobserved
    /\ BackoffTimerInit
    /\ LoopIdle
    /\ currentTime \in Times
    /\ secondOfMinute \in Seconds
    /\ timeSynced \in BOOLEAN

shouldSend ==
    /\ state' = shouldSendOutcome.state
    /\ result' = shouldSendOutcome.returned
    /\ alignWaitStartTime' = shouldSendOutcome.alignWaitStartTime
    /\ lastCall' = "shouldSend"
    /\ prevState' = state
    /\ prevCall' = lastCall
    /\ UNCHANGED <<intervalSeconds, alignToSecond, lastSendTime, intervalStartTime,
                   clockVars, sent, steady>>

\* mutant: the interval start is left where it was
recordSend_KeepsIntervalStart ==
    LET now == currentTime
    IN  /\ lastSendTime' = now
        /\ intervalStartTime' = intervalStartTime
        /\ state' = STATE_INTERVAL_WAIT
        /\ lastCall' = "recordSend"
        /\ prevState' = state
        /\ result' = FALSE
        /\ prevCall' = "none"
        /\ sent' = TRUE
        /\ steady' = TRUE
        /\ UNCHANGED <<intervalSeconds, alignToSecond, alignWaitStartTime, clockVars>>

recordSend ==
    LET now == currentTime
    IN  /\ lastSendTime' = now
        /\ intervalStartTime' = now
        /\ state' = STATE_INTERVAL_WAIT
        /\ lastCall' = "recordSend"
        /\ prevState' = state
        /\ result' = FALSE
        /\ prevCall' = "none"
        /\ sent' = TRUE
        /\ steady' = TRUE
        /\ UNCHANGED <<intervalSeconds, alignToSecond, alignWaitStartTime, clockVars>>

CallShouldSend == shouldSend /\ UNCHANGED <<liveVars, cfgVars, timerVars, loopVars>>

CallRecordSend == recordSend /\ UNCHANGED <<liveVars, cfgVars, timerVars, loopVars>>

\* mutant: a new interval restarts the wait
setInterval_RestartsInterval(seconds) ==
    /\ intervalSeconds' = clampInterval(seconds)
    /\ intervalStartTime' = currentTime
    /\ lastCall' = "none"
    /\ result' = FALSE
    /\ prevState' = state
    /\ prevCall' = "none"
    /\ steady' = FALSE
    /\ UNCHANGED <<sent, alignToSecond, state, lastSendTime,
                   alignWaitStartTime, clockVars>>

setInterval(seconds) ==
    /\ intervalSeconds' = clampInterval(seconds)
    /\ lastCall' = "none"
    /\ result' = FALSE
    /\ prevState' = state
    /\ prevCall' = "none"
    /\ steady' = FALSE
    /\ UNCHANGED <<sent, alignToSecond, state, lastSendTime, intervalStartTime,
                   alignWaitStartTime, clockVars>>

CallSetInterval(seconds) ==
    setInterval(seconds) /\ UNCHANGED <<liveVars, cfgVars, timerVars, loopVars>>

\* mutant: 0 counts as an invalid argument
setAlignSecond_RejectsZero(second) ==
    /\ alignToSecond' = IF second = 0 THEN SCHED_DEFAULT_ALIGN_SECOND
                        ELSE clampAlignSecond(second)
    /\ lastCall' = "none"
    /\ result' = FALSE
    /\ prevState' = state
    /\ prevCall' = "none"
    /\ UNCHANGED <<sent, intervalSeconds, state, lastSendTime, intervalStartTime,
                   alignWaitStartTime, clockVars, steady>>

\* mutant: an argument outside 0..59 is ignored and the value kept
setAlignSecond_KeepsOnInvalid(second) ==
    /\ alignToSecond' = IF second < 0 \/ second > 59 THEN alignToSecond ELSE second
    /\ lastCall' = "none"
    /\ result' = FALSE
    /\ prevState' = state
    /\ prevCall' = "none"
    /\ UNCHANGED <<sent, intervalSeconds, state, lastSendTime, intervalStartTime,
                   alignWaitStartTime, clockVars, steady>>

setAlignSecond(second) ==
    /\ alignToSecond' = clampAlignSecond(second)
    /\ lastCall' = "none"
    /\ result' = FALSE
    /\ prevState' = state
    /\ prevCall' = "none"
    /\ UNCHANGED <<sent, intervalSeconds, state, lastSendTime, intervalStartTime,
                   alignWaitStartTime, clockVars, steady>>

CallSetAlignSecond(second) ==
    setAlignSecond(second) /\ UNCHANGED <<liveVars, cfgVars, timerVars, loopVars>>

\* the TimeProvider gives new readings: any time (forward or backward), any
\* second of the minute, synchronized or not
ClockChange(t, s, b) ==
    /\ <<t, s, b>> # <<currentTime, secondOfMinute, timeSynced>>
    /\ currentTime' = t
    /\ secondOfMinute' = s
    /\ timeSynced' = b
    /\ lastCall' = "none"
    /\ result' = FALSE
    /\ prevState' = state
    /\ prevCall' = "none"
    /\ steady' = (steady /\ Ge32(t, currentTime))
    /\ UNCHANGED <<sent, schedVars>>

CallClockChange(t, s, b) ==
    ClockChange(t, s, b) /\ UNCHANGED <<liveVars, cfgVars, timerVars, loopVars>>

Next ==
    \/ CallShouldSend
    \/ CallRecordSend
    \/ \E seconds \in IntervalInputs : CallSetInterval(seconds)
    \/ \E second \in AlignInputs : CallSetAlignSecond(second)
    \/ \E t \in Times, s \in Seconds, b \in BOOLEAN : CallClockChange(t, s, b)

Spec == Init /\ [][Next]_vars

----------------------------------------------------------------------------
(* A scheduler whose state field can be overwritten with a value that is   *)
(* none of the enumerators: the case the default branch of shouldSend() is *)
(* written for.                                                            *)

Corrupt ==
    /\ state \in SchedulerState
    /\ state' = STATE_UNKNOWN
    /\ lastCall' = "none"
    /\ result' = FALSE
    /\ prevState' = state
    /\ prevCall' = "none"
    /\ UNCHANGED <<intervalSeconds, alignToSecond, lastSendTime, intervalStartTime,
                   alignWaitStartTime, clockVars, sent, steady>>
    /\ UNCHANGED <<liveVars, cfgVars, timerVars, loopVars>>

CorruptNext ==
    \/ CallShouldSend
    \/ CallRecordSend
    \/ \E t \in Times, s \in Seconds, b \in BOOLEAN : CallClockChange(t, s, b)
    \/ Corrupt

SpecCorrupt == Init /\ [][CorruptNext]_vars

----------------------------------------------------------------------------
(* The two calls under a clock that steps to any reading, below and above  *)
(* the wrap of the counter.                                                *)

WrapInit ==
    /\ Construct(WrapIntervalInputs, WrapAlignInputs)
    /\ Unobserved
    /\ BackoffTimerInit
    /\ LoopIdle
    /\ currentTime \in WrapTimes
    /\ secondOfMinute \in WrapSeconds
    /\ timeSynced \in BOOLEAN

WrapNext ==
    \/ CallShouldSend
    \/ CallRecordSend
    \/ \E t \in WrapTimes, s \in WrapSeconds, b \in BOOLEAN : CallClockChange(t, s, b)

SpecWrap == WrapInit /\ [][WrapNext]_vars

----------------------------------------------------------------------------
(* Polled runs: the clock advances one second at a time, shouldSend() is   *)
(* called at least once in every second, and recordSend() is called, as in *)
(* loop(), only after shouldSend() has returned true.                      *)

\* the mock clock of the tests: second of minute = currentTime % 60
Mod60(t) == ((t[1] % 60) * (Half % 60) + t[2]) % 60

Tick(s, b) ==
    /\ polled
    /\ ticks < MaxTicks
    /\ sawTrue => latency < MaxLatency
    /\ currentTime' = Add32(currentTime, 1)
    /\ secondOfMinute' = s
    /\ timeSynced' = b
    /\ ticks' = ticks + 1
    /\ polled' = FALSE
    /\ sinceSend' = sinceSend + 1
    /\ sinceAlign' = IF state = STATE_ALIGN_WAIT THEN sinceAlign + 1 ELSE 0
    /\ latency' = IF sawTrue THEN latency + 1 ELSE 0
    /\ lastCall' = "none"
    /\ result' = FALSE
    /\ prevState' = state
    /\ prevCall' = "none"
    /\ steady' = (steady /\ Ge32(currentTime', currentTime))
    /\ UNCHANGED <<sent, schedVars, sawTrue, trigger, anchor, cfgVars, timerVars, loopVars>>

Poll ==
    /\ shouldSend
    /\ polled' = TRUE
    /\ sawTrue' = (sawTrue \/ result')
    /\ trigger' = IF result' /\ ~sawTrue
                  THEN IF ~shouldSkipAlignment /\ isAlignedSecond
                       THEN <<currentTime>> ELSE <<>>
                  ELSE trigger
    /\ sinceAlign' = IF state' = STATE_ALIGN_WAIT THEN sinceAlign ELSE 0
    /\ UNCHANGED <<ticks, sinceSend, latency, anchor, cfgVars, timerVars, loopVars>>

Send ==
    /\ sawTrue
    /\ recordSend
    /\ sinceSend' = 0
    /\ sawTrue' = FALSE
    /\ latency' = 0
    /\ anchor' = trigger
    /\ sinceAlign' = 0
    /\ trigger' = <<>>
    /\ UNCHANGED <<ticks, polled, cfgVars, timerVars, loopVars>>

\* any second of the minute and any synchronization at every second
LiveInit ==
    /\ Construct(LiveIntervalInputs, LiveAlignInputs)
    /\ Unobserved
    /\ BackoffTimerInit
    /\ LoopIdle
    /\ currentTime \in LiveStartTimes
    /\ secondOfMinute \in Seconds
    /\ timeSynced \in BOOLEAN

LiveNext ==
    \/ \E s \in Seconds, b \in BOOLEAN : Tick(s, b)
    \/ Poll
    \/ Send

SpecLive == LiveInit /\ [][LiveNext]_vars

\* the synchronized mock clock of the drift tests
DriftInit ==
    /\ Construct(DriftIntervalInputs, DriftAlignInputs)
    /\ Unobserved
    /\ BackoffTimerInit
    /\ LoopIdle
    /\ currentTime \in DriftStartTimes
    /\ secondOfMinute = Mod60(currentTime)
    /\ timeSynced = TRUE

DriftNext ==
    \/ Tick(Mod60(Add32(currentTime, 1)), TRUE)
    \/ Poll
    \/ Send

SpecDrift == DriftInit /\ [][DriftNext]_vars

\* a consistent clock with any alignment second, synchronized or not
ConsistentInit ==
    /\ Construct(DriftIntervalInputs, ConsistentAlignInputs)
    /\ Unobserved
    /\ BackoffTimerInit
    /\ LoopIdle
    /\ currentTime \in ConsistentStartTimes
    /\ secondOfMinute = Mod60(currentTime)
    /\ timeSynced \in BOOLEAN

ConsistentNext ==
    \/ \E b \in BOOLEAN : Tick(Mod60(Add32(currentTime, 1)), b)
    \/ Poll
    \/ Send

SpecConsistent == ConsistentInit /\ [][ConsistentNext]_vars

----------------------------------------------------------------------------
(* Configuration runs: the constructor, setInterval() and setAlignSecond() *)
(* are observed with their arguments.                                      *)

ObservedConstruct(intervals, aligns) ==
    \E i \in intervals, a \in aligns :
        /\ ConstructWith(i, a)
        /\ op = [name |-> "construct", interval |-> i, align |-> a, fresh |-> TRUE]

\* the observed call is no longer the last step
Stale(o) == IF o.name = "none" THEN o ELSE [o EXCEPT !.fresh = FALSE]

ObservedSetInterval(seconds) ==
    /\ setInterval(seconds)
    /\ op' = [name |-> "setInterval", arg |-> seconds, before |-> intervalSeconds,
              in |-> state, fresh |-> TRUE]
    /\ UNCHANGED <<liveVars, timerVars, loopVars>>

ObservedSetAlignSecond(second) ==
    /\ setAlignSecond(second)
    /\ op' = [name |-> "setAlignSecond", arg |-> second, before |-> alignToSecond,
              in |-> state, fresh |-> TRUE]
    /\ UNCHANGED <<liveVars, timerVars, loopVars>>

ObservedShouldSend ==
    /\ shouldSend
    /\ op' = Stale(op)
    /\ UNCHANGED <<liveVars, timerVars, loopVars>>

ObservedRecordSend ==
    /\ recordSend
    /\ op' = NoOp
    /\ UNCHANGED <<liveVars, timerVars, loopVars>>

ObservedClockChange(t, s, b) ==
    /\ ClockChange(t, s, b)
    /\ op' = Stale(op)
    /\ UNCHANGED <<liveVars, timerVars, loopVars>>

\* arguments over the whole range, a synchronized clock that reads the start
\* or the end of the longest interval
ClampInit ==
    /\ ObservedConstruct(ClampIntervalInputs, ClampAlignInputs)
    /\ currentTime \in ClampTimes
    /\ secondOfMinute = 0
    /\ timeSynced = TRUE
    /\ BackoffTimerInit
    /\ LoopIdle

ClampNext ==
    \/ \E seconds \in ClampIntervalInputs : ObservedSetInterval(seconds)
    \/ \E second \in ClampAlignInputs : ObservedSetAlignSecond(second)
    \/ ObservedShouldSend
    \/ ObservedRecordSend
    \/ \E t \in ClampTimes : ObservedClockChange(t, 0, TRUE)

SpecClamp == ClampInit /\ [][ClampNext]_vars

\* the setters are called in every state of the scheduler
ConfigInit ==
    /\ ObservedConstruct(ConfigIntervalInputs, ConfigAlignInputs)
    /\ currentTime \in ConfigTimes
    /\ secondOfMinute \in ConfigSeconds
    /\ timeSynced \in BOOLEAN
    /\ BackoffTimerInit
    /\ LoopIdle

ConfigNext ==
    \/ \E seconds \in ConfigIntervalInputs : ObservedSetInterval(seconds)
    \/ \E second \in ConfigAlignInputs : ObservedSetAlignSecond(second)
    \/ ObservedShouldSend
    \/ ObservedRecordSend
    \/ \E t \in ConfigTimes, s \in ConfigSeconds, b \in BOOLEAN :
           ObservedClockChange(t, s, b)

SpecConfig == ConfigInit /\ [][ConfigNext]_vars

----------------------------------------------------------------------------
(* Backoff runs: recordFailure() and recordSuccess() are called in any     *)
(* order while the millisecond counter advances.                           *)

schedulerVars == <<schedVars, clockVars, obsVars, liveVars, cfgVars>>

CallRecordFailure ==
    /\ streak < MaxStreak
    /\ recordFailure
    /\ UNCHANGED <<millis, advances, schedulerVars, loopVars>>

CallRecordSuccess ==
    /\ recordSuccess
    /\ UNCHANGED <<millis, advances, schedulerVars, loopVars>>

MillisAdvance(d) ==
    /\ advances < MaxAdvances
    /\ millis' = Add32(millis, d)
    /\ advances' = advances + 1
    /\ sinceFirst' = IF inFailureState THEN AddWide(sinceFirst, d) ELSE sinceFirst
    /\ UNCHANGED <<currentDelayMs, firstFailureTime, inFailureState, timerCall,
                   streak, ended, schedulerVars, loopVars>>

\* the scheduler as setup() constructs it, left alone
BackoffInit ==
    /\ BackoffTimerConstruct
    /\ millis \in BackoffStartMillis
    /\ advances = 0
    /\ LoopIdle
    /\ ConstructWith(DEFAULT_INTERVAL_SEC, 55)
    /\ Unobserved
    /\ currentTime = U32(0)
    /\ secondOfMinute = 0
    /\ timeSynced = FALSE

BackoffNext ==
    \/ CallRecordFailure
    \/ CallRecordSuccess
    \/ \E d \in MillisSteps : MillisAdvance(d)

SpecBackoff == BackoffInit /\ [][BackoffNext]_vars

\* the same timer over streaks that last as long as the counter's period
LongMillisAdvance(d) ==
    /\ advances < MaxLongAdvances
    /\ millis' = Add32(millis, d)
    /\ advances' = advances + 1
    /\ sinceFirst' = IF inFailureState THEN AddWide(sinceFirst, d) ELSE sinceFirst
    /\ UNCHANGED <<currentDelayMs, firstFailureTime, inFailureState, timerCall,
                   streak, ended, schedulerVars, loopVars>>

BackoffLongNext ==
    \/ CallRecordFailure
    \/ CallRecordSuccess
    \/ \E d \in LongMillisSteps : LongMillisAdvance(d)

SpecBackoffLong == BackoffInit /\ [][BackoffLongNext]_vars

----------------------------------------------------------------------------
(* loop() of main.cpp, one action per call it makes on the scheduler and   *)
(* the timer.  The clock advances, in whole seconds, between two runs of   *)
(* loop() (delay(100)) and while the WiFi reconnect, the sensor reading    *)
(* and the POST are under way; the calls that follow are made back to back.*)

\* ApiClient::clampInterval
ApiClientClampInterval(interval) ==
    IF interval < MIN_INTERVAL_SEC THEN MIN_INTERVAL_SEC
    ELSE IF interval > MAX_INTERVAL_SEC THEN MAX_INTERVAL_SEC
    ELSE interval

\* response.intervalSeconds as postSensors() leaves it
postSensorsInterval(r) ==
    IF r = <<>> THEN DEFAULT_INTERVAL_SEC ELSE ApiClientClampInterval(r[1])

\* if (reportScheduler->shouldSend())
LoopShouldSend ==
    /\ pc = "top"
    /\ shouldSend
    /\ pc' = IF result' THEN "attempt" ELSE "top"
    /\ calls' = <<>>
    /\ decided' = <<result'>>
    /\ UNCHANGED <<path, response, due, waits, liveVars, cfgVars, timerVars>>

\* the WiFi reconnect fails, or the POST is made and succeeds or fails
LoopAttempt(p, r) ==
    /\ pc = "attempt"
    /\ path' = p
    /\ response' = IF p = "success" THEN r ELSE <<>>
    /\ pc' = "recordSend"
    /\ UNCHANGED <<calls, decided, due, waits, schedulerVars, timerVars>>

\* mutant: a failed WiFi reconnect skips the report without recordSend()
LoopRecordSend_NotOnWifiFail ==
    /\ pc = "recordSend"
    /\ IF path = "wifiFail"
       THEN UNCHANGED <<schedVars, clockVars, obsVars, calls, sinceSend>>
       ELSE /\ recordSend
            /\ calls' = Append(calls, "recordSend")
            /\ sinceSend' = 0
    /\ pc' = "recordOutcome"
    /\ UNCHANGED <<path, response, decided, due, waits, cfgVars, timerVars,
                   ticks, polled, sawTrue, latency, trigger, anchor, sinceAlign>>

LoopRecordSend ==
    /\ pc = "recordSend"
    /\ recordSend
    /\ calls' = Append(calls, "recordSend")
    /\ pc' = "recordOutcome"
    /\ sinceSend' = 0
    /\ UNCHANGED <<path, response, decided, due, waits, cfgVars, timerVars,
                   ticks, polled, sawTrue, latency, trigger, anchor, sinceAlign>>

\* mutant: a failed WiFi reconnect is not recorded on the timer
LoopRecordOutcome_NotOnWifiFail ==
    /\ pc = "recordOutcome"
    /\ UNCHANGED <<millis, advances>>
    /\ IF path = "success"
       THEN recordSuccess /\ calls' = Append(calls, "recordSuccess") /\ due' = <<>>
       ELSE IF path = "failure"
            THEN /\ recordFailure
                 /\ calls' = Append(calls, "recordFailure")
                 /\ due' = <<shouldReboot'>>
            ELSE UNCHANGED <<currentDelayMs, firstFailureTime, inFailureState, timerCall,
                             streak, ended, sinceFirst, calls, due>>
    /\ pc' = "setInterval"
    /\ UNCHANGED <<path, response, decided, waits, schedulerVars>>

\* backoffTimer.recordSuccess() / backoffTimer.recordFailure()
LoopRecordOutcome ==
    /\ pc = "recordOutcome"
    /\ UNCHANGED <<millis, advances>>
    /\ IF path = "success"
       THEN recordSuccess /\ calls' = Append(calls, "recordSuccess") /\ due' = <<>>
       ELSE /\ recordFailure
            /\ calls' = Append(calls, "recordFailure")
            /\ due' = <<shouldReboot'>>
    /\ pc' = "setInterval"
    /\ UNCHANGED <<path, response, decided, waits, schedulerVars>>

\* mutant: the delay is handed over in milliseconds
LoopSetInterval_InMilliseconds ==
    /\ pc = "setInterval"
    /\ setInterval(IF path = "success" THEN postSensorsInterval(response)
                   ELSE getDelayMs)
    /\ calls' = Append(calls, "setInterval")
    /\ pc' = IF path = "failure" THEN "rebootCheck" ELSE "top"
    /\ UNCHANGED <<path, response, decided, due, waits, liveVars, cfgVars, timerVars>>

\* mutant: the interval of the response is used only when no streak ended
LoopSetInterval_KeepsBackoff ==
    /\ pc = "setInterval"
    /\ setInterval(IF path = "success" /\ ended \in {<<>>, <<0>>}
                   THEN postSensorsInterval(response)
                   ELSE intervalSeconds)
    /\ calls' = Append(calls, "setInterval")
    /\ pc' = IF path = "failure" THEN "rebootCheck" ELSE "top"
    /\ UNCHANGED <<path, response, decided, due, waits, liveVars, cfgVars, timerVars>>

\* reportScheduler->setInterval(..): the interval of the response after a
\* success, the backoff delay in seconds after a failure
LoopSetInterval ==
    /\ pc = "setInterval"
    /\ setInterval(IF path = "success" THEN postSensorsInterval(response)
                   ELSE getDelayMs \div 1000)
    /\ calls' = Append(calls, "setInterval")
    /\ pc' = IF path = "failure" THEN "rebootCheck" ELSE "top"
    /\ UNCHANGED <<path, response, decided, due, waits, liveVars, cfgVars, timerVars>>

\* if (backoffTimer.shouldReboot()) ESP.restart(), on the failed-POST path
LoopRebootCheck ==
    /\ pc = "rebootCheck"
    /\ pc' = IF shouldReboot THEN "restarted" ELSE "top"
    /\ UNCHANGED <<path, response, calls, decided, due, waits, schedulerVars, timerVars>>

\* d seconds pass on the clock and on the millisecond counter
LoopTimePasses(d, s, b) ==
    /\ pc \in {"top", "attempt"}
    /\ waits < MaxLoopWaits
    /\ ClockChange(Add32(currentTime, d), s, b)
    /\ millis' = Add32(millis, d * 1000)
    /\ sinceFirst' = IF inFailureState THEN AddWide(sinceFirst, d * 1000) ELSE sinceFirst
    /\ waits' = waits + 1
    /\ sinceSend' = sinceSend + d
    /\ UNCHANGED <<currentDelayMs, firstFailureTime, inFailureState, timerCall, streak,
                   ended, advances, pc, path, response, calls, decided, due, cfgVars,
                   ticks, polled, sawTrue, latency, trigger, anchor, sinceAlign>>

\* setup(): the scheduler with the default interval and alignment to :55,
\* the global timer, both counters at their start
LoopInit ==
    /\ ConstructWith(DEFAULT_INTERVAL_SEC, 55)
    /\ Unobserved
    /\ BackoffTimerInit
    /\ LoopIdle
    /\ currentTime = U32(0)
    /\ secondOfMinute \in LoopSeconds
    /\ timeSynced \in BOOLEAN

LoopNext ==
    \/ LoopShouldSend
    \/ \E p \in {"wifiFail", "success", "failure"}, r \in ServerIntervals : LoopAttempt(p, r)
    \/ LoopRecordSend
    \/ LoopRecordOutcome
    \/ LoopSetInterval
    \/ LoopRebootCheck
    \/ \E d \in LoopWaits, s \in LoopSeconds, b \in BOOLEAN : LoopTimePasses(d, s, b)

SpecLoop == LoopInit /\ [][LoopNext]_vars

----------------------------------------------------------------------------
(* Properties *)

\* seconds from time t to the current time, as the uint32_t difference
Since(t) == Sub32(currentTime, t)

\* the current second of the minute is inside [alignToSecond, 59]
InWindow == secondOfMinute \in alignToSecond..59

\* C1: a freshly constructed scheduler is in BootSend, and every shouldSend()
\* made before the first recordSend() returns true and leaves the state
\* BootSend, whatever the clock, the interval and the alignment second are.
C1_BootSendAlwaysTrue ==
    ~sent => /\ state = STATE_BOOT_SEND
             /\ lastCall = "shouldSend" => result

C1_Witness ==
    /\ ~sent
    /\ lastCall = "shouldSend"
    /\ prevCall = "shouldSend"
    /\ ~timeSynced
    /\ intervalSeconds >= 60
    /\ secondOfMinute < alignToSecond

C3_AlignmentWindow ==
    (/\ lastCall = "shouldSend"
     /\ timeSynced
     /\ intervalSeconds >= 60
     /\ \/ prevState = STATE_INTERVAL_WAIT
           /\ Ge32(Since(intervalStartTime), U32(intervalSeconds))
        \/ prevState = STATE_ALIGN_WAIT
           /\ Lt32(Since(alignWaitStartTime), U32(65)))
    => /\ result <=> InWindow
       /\ secondOfMinute < alignToSecond => state = STATE_ALIGN_WAIT

C3_Witness ==
    /\ lastCall = "shouldSend"
    /\ timeSynced
    /\ intervalSeconds = 60
    /\ prevState = STATE_ALIGN_WAIT
    /\ Lt32(Since(alignWaitStartTime), U32(65))
    /\ currentTime # alignWaitStartTime
    /\ secondOfMinute = alignToSecond
    /\ alignToSecond < 55
    /\ result
    /\ state = STATE_READY_TO_SEND

\* C4: a shouldSend() made in IntervalWait once the interval has elapsed,
\* with the clock unsynchronized or the interval < 60, returns true and moves
\* the state straight to ReadyToSend, not through AlignWait
\* (alignWaitStartTime is not written), whatever the second of the minute is.
C4_SkipAlignment ==
    [][(/\ lastCall' = "shouldSend"
        /\ state = STATE_INTERVAL_WAIT
        /\ Ge32(Since(intervalStartTime), U32(intervalSeconds))
        /\ ~timeSynced \/ intervalSeconds < 60)
       => /\ result'
          /\ state' = STATE_READY_TO_SEND
          /\ alignWaitStartTime' = alignWaitStartTime]_vars

C4_Witness ==
    /\ lastCall = "shouldSend"
    /\ prevState = STATE_INTERVAL_WAIT
    /\ state = STATE_READY_TO_SEND
    /\ result
    /\ ~timeSynced
    /\ intervalSeconds >= 60
    /\ secondOfMinute < alignToSecond
    /\ alignWaitStartTime # currentTime

\* C5: a shouldSend() made in AlignWait at a time at least 65 seconds after
\* AlignWait was entered returns true and moves the state to ReadyToSend,
\* whatever the second of the minute is.
C5_AlignWaitTimeout ==
    (/\ lastCall = "shouldSend"
     /\ prevState = STATE_ALIGN_WAIT
     /\ Ge32(currentTime, alignWaitStartTime)
     /\ Ge32(Since(alignWaitStartTime), U32(65)))
    => result /\ state = STATE_READY_TO_SEND

C5_Witness ==
    /\ lastCall = "shouldSend"
    /\ prevState = STATE_ALIGN_WAIT
    /\ currentTime = Add32(alignWaitStartTime, 65)
    /\ secondOfMinute < alignToSecond
    /\ result
    /\ state = STATE_READY_TO_SEND

\* C6: once the state is ReadyToSend, every step other than recordSend()
\* (clock change, setInterval(), setAlignSecond(), shouldSend()) leaves it
\* ReadyToSend, and every shouldSend() returns true.
C6_ReadyToSendHolds ==
    [][(state = STATE_READY_TO_SEND /\ lastCall' # "recordSend")
       => /\ state' = STATE_READY_TO_SEND
          /\ lastCall' = "shouldSend" => result']_vars

C6_Witness ==
    /\ lastCall = "shouldSend"
    /\ prevState = STATE_READY_TO_SEND
    /\ state = STATE_READY_TO_SEND
    /\ result
    /\ prevCall = "none"
    /\ timeSynced
    /\ intervalSeconds >= 60
    /\ secondOfMinute < alignToSecond
    /\ Lt32(currentTime, intervalStartTime)

C8_AnchoredToAlignSecond ==
    (/\ lastCall = "shouldSend"
     /\ anchor # <<>>
     /\ timeSynced
     /\ intervalSeconds >= 60
     /\ currentTime = Add32(anchor[1], intervalSeconds))
    => result

\* C9: with the clock advancing second by second and shouldSend() called in
\* every second, some shouldSend() has returned true by the call made
\* intervalSeconds + 65 seconds after the last recordSend() (or after
\* construction), whatever second of the minute and synchronization the
\* clock reports.
C9_SendWithinIntervalPlusTimeout ==
    (polled /\ sinceSend >= intervalSeconds + 65) => sawTrue

C9_Witness ==
    /\ polled
    /\ sent
    /\ sinceSend = intervalSeconds + 65
    /\ lastCall = "shouldSend"
    /\ prevState = STATE_ALIGN_WAIT
    /\ state = STATE_READY_TO_SEND
    /\ result
    /\ secondOfMinute < alignToSecond
    /\ Lt32(currentTime, lastSendTime)

\* C10: shouldSend() calls that directly follow one another, with the clock
\* held fixed and no other call in between, all return the same value, and
\* every call after the first leaves the state and alignWaitStartTime as
\* they are.
C10_RepeatedCallsAgree ==
    [][(lastCall = "shouldSend" /\ lastCall' = "shouldSend")
       => /\ result' = result
          /\ state' = state
          /\ alignWaitStartTime' = alignWaitStartTime]_vars

C10_Witness ==
    /\ lastCall = "shouldSend"
    /\ prevCall = "shouldSend"
    /\ state = STATE_ALIGN_WAIT
    /\ alignWaitStartTime = currentTime
    /\ ~result

Max(a, b) == IF a >= b THEN a ELSE b
Min(a, b) == IF a <= b THEN a ELSE b

\* the last configuration call was setInterval() / setAlignSecond()
IntervalSet == op.name = "setInterval"
AlignSet == op.name = "setAlignSecond"
Constructed == op.name = "construct"

\* C11: in every reachable state, whatever integers the constructor and the
\* setInterval() calls were given, 10 <= intervalSeconds <= 1800.
C11_IntervalInRange ==
    intervalSeconds >= 10 /\ intervalSeconds <= 1800

C11_Witness ==
    /\ sent
    /\ IntervalSet
    /\ op.fresh
    /\ op.arg > 1800
    /\ op.before = 10
    /\ intervalSeconds = 1800

\* C12: the interval stored by the constructor or by setInterval() for an
\* argument x is max(10, min(1800, x)): 10 for x < 10 (zero and negative
\* included), 1800 for x > 1800, and x itself for x in [10, 1800].
C12_ClampInterval ==
    (Constructed \/ IntervalSet) =>
        LET x == IF Constructed THEN op.interval ELSE op.arg
        IN  /\ intervalSeconds = Max(10, Min(1800, x))
            /\ x < 10 => intervalSeconds = 10
            /\ x > 1800 => intervalSeconds = 1800
            /\ x \in 10..1800 => intervalSeconds = x

C12_Witness ==
    /\ IntervalSet
    /\ op.fresh
    /\ op.arg < 0
    /\ op.before = 1800
    /\ intervalSeconds = 10

\* C13: in every reachable state, whatever integers the constructor and the
\* setAlignSecond() calls were given, 0 <= alignSecond <= 59.
C13_AlignSecondInRange ==
    alignToSecond >= 0 /\ alignToSecond <= 59

C13_Witness ==
    /\ sent
    /\ AlignSet
    /\ op.fresh
    /\ op.arg < 0
    /\ op.before = 59
    /\ alignToSecond = 53

\* C14 (as claimed): setAlignSecond(v) with v < 0 or v > 59 leaves alignSecond
\* at the value it had before the call.
C14_InvalidKeepsPrior ==
    (AlignSet /\ (op.arg < 0 \/ op.arg > 59)) => alignToSecond = op.before

\* C14 (amended): setAlignSecond(v) with v < 0 or v > 59 replaces the value
\* alignSecond had before the call by the default 53, so that the prior
\* value is retained only when it was 53 itself.
C14_InvalidReplacesPrior ==
    (AlignSet /\ (op.arg < 0 \/ op.arg > 59)) =>
        /\ alignToSecond = 53
        /\ alignToSecond = op.before <=> op.before = 53

C14_Witness ==
    /\ AlignSet
    /\ op.fresh
    /\ op.arg > 59
    /\ op.before = 30
    /\ alignToSecond = 53

\* C15: setAlignSecond(v) with v < 0 or v > 59, and construction with such a
\* v, set alignSecond to the default 53, whatever it was before the call.
C15_InvalidGivesDefault ==
    /\ (AlignSet /\ op.arg \notin 0..59) => alignToSecond = 53
    /\ (Constructed /\ op.align \notin 0..59) => alignToSecond = 53

C15_Witness ==
    /\ AlignSet
    /\ op.fresh
    /\ op.arg = 60
    /\ op.before = 55
    /\ op.in = STATE_ALIGN_WAIT
    /\ alignToSecond = 53

\* C16: setAlignSecond(v) with 0 <= v <= 59 stores v exactly, and every
\* alignment decision shouldSend() makes afterwards (interval elapsed in
\* IntervalWait, or AlignWait before its timeout, with alignment applying)
\* returns true exactly when the second of the minute is in [v, 59], also
\* when the wait was in progress when the value was changed.
C16_ValidAlignSecondUsed ==
    (AlignSet /\ op.arg \in 0..59) =>
        /\ alignToSecond = op.arg
        /\ (/\ lastCall = "shouldSend"
            /\ timeSynced
            /\ intervalSeconds >= 60
            /\ \/ prevState = STATE_INTERVAL_WAIT
                  /\ Ge32(Since(intervalStartTime), U32(intervalSeconds))
               \/ prevState = STATE_ALIGN_WAIT
                  /\ Lt32(Since(alignWaitStartTime), U32(65)))
           => /\ result <=> secondOfMinute \in op.arg..59
              /\ secondOfMinute < op.arg => state = STATE_ALIGN_WAIT

C16_Witness ==
    /\ AlignSet
    /\ op.in = STATE_ALIGN_WAIT
    /\ op.arg = 0
    /\ op.before = 30
    /\ secondOfMinute = 29
    /\ lastCall = "shouldSend"
    /\ prevState = STATE_ALIGN_WAIT
    /\ Lt32(Since(alignWaitStartTime), U32(65))
    /\ timeSynced
    /\ intervalSeconds >= 60
    /\ result
    /\ state = STATE_READY_TO_SEND

\* C17: setInterval(s) writes intervalSeconds (the clamped s) and nothing
\* else of the scheduler, and makes no decision; after a setInterval() made
\* in IntervalWait, a shouldSend() in IntervalWait returns false and stays
\* while the time since the last recordSend() is below the new clamped
\* interval, and leaves IntervalWait once it is at least the new interval.
C17_SetIntervalOnlyInterval ==
    [][/\ (op'.name = "setInterval" /\ op'.fresh) =>
             /\ UNCHANGED <<state, lastSendTime, intervalStartTime,
                            alignWaitStartTime, alignToSecond>>
             /\ intervalSeconds' = Max(10, Min(1800, op'.arg))
             /\ lastCall' = "none"
       /\ (lastCall' = "shouldSend" /\ IntervalSet /\ op.in = STATE_INTERVAL_WAIT
           /\ state = STATE_INTERVAL_WAIT) =>
             LET new == Max(10, Min(1800, op.arg))
                 elapsed == Since(lastSendTime)
             IN  /\ Lt32(elapsed, U32(new)) =>
                       ~result' /\ state' = STATE_INTERVAL_WAIT
                 /\ Ge32(elapsed, U32(new)) => state' # STATE_INTERVAL_WAIT]_vars

C17_Witness ==
    /\ IntervalSet
    /\ op.in = STATE_INTERVAL_WAIT
    /\ op.before = 300
    /\ op.arg = 5
    /\ intervalSeconds = 10
    /\ lastCall = "shouldSend"
    /\ prevState = STATE_INTERVAL_WAIT
    /\ Since(lastSendTime) = U32(9)
    /\ state = STATE_INTERVAL_WAIT
    /\ ~result

\* C18: in every reachable state of the backoff timer, after any sequence
\* of recordFailure() and recordSuccess() calls,
\* 10000 <= currentDelayMs <= 300000.
C18_DelayInRange ==
    currentDelayMs >= 10000 /\ currentDelayMs <= 300000

C18_Witness ==
    /\ timerCall = "recordFailure"
    /\ streak = 7
    /\ currentDelayMs = 300000
    /\ ended = <<>>

\* C19: after the k-th consecutive recordFailure() (k >= 1) on a timer that
\* was fresh or had just had recordSuccess(), getDelayMs() is
\* min(10000 * 2^(k-1), 300000): 10000 after the first, doubled by each
\* later one, and 300000 from the 6th on.
C19_DelayAfterKFailures ==
    streak >= 1 =>
        /\ getDelayMs = Min(10000 * 2^(streak - 1), 300000)
        /\ streak = 1 => getDelayMs = 10000
        /\ streak = 2 => getDelayMs = 20000
        /\ streak = 5 => getDelayMs = 160000
        /\ streak >= 6 => getDelayMs = 300000

C19_Witness ==
    /\ timerCall = "recordFailure"
    /\ ended = <<6>>
    /\ streak = 6
    /\ getDelayMs = 300000

\* C20: recordSuccess(), after any number of failures (none included),
\* leaves the timer as a fresh one: inFailureState false, firstFailureTime
\* 0, getDelayMs() = 10000, shouldReboot() false and
\* getFailureDurationMs() = 0; the recordFailure() that follows it starts a
\* new streak at 10000 ms.
C20_RecordSuccessResets ==
    /\ timerCall = "recordSuccess" =>
          /\ ~inFailureState
          /\ firstFailureTime = U32(0)
          /\ getDelayMs = 10000
          /\ ~shouldReboot
          /\ getFailureDurationMs = U32(0)
    /\ (timerCall = "recordFailure" /\ ended # <<>> /\ streak = 1) =>
          /\ inFailureState
          /\ getDelayMs = 10000

C20_Witness ==
    /\ timerCall = "recordSuccess"
    /\ ended = <<7>>
    /\ advances = 3
    /\ millis # U32(0)
    /\ getDelayMs = 10000

\* the millisecond counter has advanced by less than its period, 2^32 ms,
\* since the first failure of the streak
WithinPeriod == sinceFirst[1] < Half

C22_RebootStaysTrue ==
    [][(shouldReboot /\ inFailureState') => shouldReboot']_vars

\* C22 (amended): once shouldReboot() is true in a failure streak it stays
\* true, through further recordFailure() calls and through the wrap of the
\* millisecond counter, until recordSuccess() is called or 2^32 ms have
\* passed since the first failure of the streak.
C22_RebootStaysTrueWithinPeriod ==
    [][(shouldReboot /\ inFailureState' /\ WithinPeriod') => shouldReboot']_vars

C22_Witness ==
    /\ shouldReboot
    /\ timerCall = "recordFailure"
    /\ streak >= 2
    /\ Lt32(millis, firstFailureTime)
    /\ Ge32(sinceFirst, U32(1073741824))
    /\ WithinPeriod

\* C23: firstFailureTime is 0 whenever inFailureState is false; the first
\* recordFailure() of a streak sets it to the current time and every later
\* one of the streak leaves it unchanged; getFailureDurationMs() is the time
\* since the first failure of the streak, and 0 outside a streak.
C23_FirstFailureTime ==
    /\ [](/\ ~inFailureState => (firstFailureTime = U32(0) /\ getFailureDurationMs = U32(0))
          /\ inFailureState <=> streak >= 1
          /\ inFailureState => getFailureDurationMs = sinceFirst)
    /\ [][streak' = streak + 1 =>
             firstFailureTime' = IF streak = 0 THEN millis ELSE firstFailureTime]_vars

C23_Witness ==
    /\ inFailureState
    /\ streak = 3
    /\ timerCall = "recordFailure"
    /\ ended # <<>>
    /\ firstFailureTime # U32(0)
    /\ firstFailureTime # millis
    /\ getFailureDurationMs = U32(1800001)

\* loop() is between two runs, or has restarted the device
IterationOver == pc \in {"top", "restarted"}

\* the last attempt failed and loop() has made its calls for it
AfterFailedAttempt ==
    /\ path \in {"wifiFail", "failure"}
    /\ pc \in {"top", "attempt", "rebootCheck", "restarted"}

\* the last attempt succeeded and loop() has made its calls for it
AfterSuccessfulAttempt ==
    /\ path = "success"
    /\ pc \in {"top", "attempt"}

\* C24: a run of loop() in which shouldSend() returned true has called
\* recordSend() once, then exactly one of recordSuccess()/recordFailure()
\* (the one that fits the path taken), then setInterval(); a run in which
\* shouldSend() returned false has called none of them.
C24_CallsOfAnIteration ==
    IterationOver =>
        /\ decided = <<TRUE>> =>
              /\ path \in {"wifiFail", "success", "failure"}
              /\ calls = <<"recordSend",
                           IF path = "success" THEN "recordSuccess" ELSE "recordFailure",
                           "setInterval">>
        /\ decided # <<TRUE>> => calls = <<>>

C24_Witness ==
    /\ pc = "top"
    /\ decided = <<TRUE>>
    /\ path = "wifiFail"
    /\ calls = <<"recordSend", "recordFailure", "setInterval">>
    /\ streak = 2
    /\ ended = <<1>>

\* C25: when a failure has been recorded and shouldReboot() is true after
\* it, loop() does not return without restarting the device.
C25_RestartWhenDue ==
    due = <<TRUE>> => pc \in {"setInterval", "rebootCheck", "restarted"}

\* C26: after a failed attempt the scheduler's interval is getDelayMs()/1000,
\* which after the k-th failure of a streak is min(10 * 2^(k-1), 300) seconds,
\* whatever the interval was before the streak.
C26_IntervalIsBackoff ==
    AfterFailedAttempt =>
        /\ streak >= 1
        /\ intervalSeconds = getDelayMs \div 1000
        /\ intervalSeconds = Min(10 * 2^(streak - 1), 300)

C26_Witness ==
    /\ AfterFailedAttempt
    /\ pc = "top"
    /\ path = "wifiFail"
    /\ streak = 6
    /\ intervalSeconds = 300
    /\ ended = <<0>>

\* C27: after a successful attempt the timer is reset and the scheduler's
\* interval is the interval of the response clamped to [10, 1800], or 300
\* when the response carries none, whatever streak the success ended.
C27_IntervalIsServers ==
    AfterSuccessfulAttempt =>
        /\ ~inFailureState
        /\ getDelayMs = 10000
        /\ getFailureDurationMs = U32(0)
        /\ ~shouldReboot
        /\ streak = 0
        /\ intervalSeconds = IF response = <<>> THEN 300
                              ELSE Max(10, Min(1800, response[1]))

C27_Witness ==
    /\ AfterSuccessfulAttempt
    /\ pc = "top"
    /\ ended = <<4>>
    /\ response = <<5000>>
    /\ intervalSeconds = 1800

\* C28: across the wrap of the 32-bit seconds counter, shouldSend() takes the
\* interval as elapsed exactly when the clock has advanced by intervalSeconds
\* or more since recordSend(), and the alignment wait as timed out exactly
\* when it has advanced by 65 or more since AlignWait was entered.
C28_ElapsedAcrossWrap ==
    /\ [](/\ (sent => (hasIntervalElapsed <=> sinceSend >= intervalSeconds))
          /\ (state = STATE_ALIGN_WAIT =>
                 (hasAlignWaitTimedOut <=> sinceAlign >= 65)))
    /\ [][/\ ((lastCall' = "shouldSend" /\ state = STATE_INTERVAL_WAIT) =>
                 ((state' # STATE_INTERVAL_WAIT) <=> sinceSend >= intervalSeconds))
           /\ ((lastCall' = "shouldSend" /\ state = STATE_ALIGN_WAIT /\ ~isAlignedSecond) =>
                 (result' <=> sinceAlign >= 65))]_vars

C28_Witness ==
    /\ state = STATE_READY_TO_SEND
    /\ prevState = STATE_ALIGN_WAIT
    /\ lastCall = "shouldSend"
    /\ result
    /\ ~isAlignedSecond
    /\ sinceSend = intervalSeconds + 65
    /\ Lt32(currentTime, alignWaitStartTime)
    /\ Lt32(currentTime, intervalStartTime)

\* seconds from now until the second of the minute is next in
\* [alignToSecond, 59]
UntilWindow ==
    CHOOSE n \in 0..59 :
        /\ (secondOfMinute + n) % 60 \in alignToSecond..59
        /\ \A m \in 0..(n - 1) : (secondOfMinute + m) % 60 \notin alignToSecond..59

\* what is left of the interval: intervalSeconds - (now - intervalStartTime),
\* 0 once the interval has elapsed
RemainingInterval ==
    LET elapsed == Sub32(currentTime, intervalStartTime)
    IN  IF Ge32(elapsed, U32(intervalSeconds)) THEN 0
        ELSE intervalSeconds - (elapsed[1] * Half + elapsed[2])

\* C29 as stated: getSecondsUntilSend() is 0 in BootSend and ReadyToSend, the
\* remaining interval max(0, intervalSeconds - (now - intervalStartTime)) in
\* IntervalWait, and the seconds until the alignment window in AlignWait.
C29_RemainingOrWindow ==
    /\ state \in {STATE_BOOT_SEND, STATE_READY_TO_SEND} => getSecondsUntilSend = 0
    /\ state = STATE_INTERVAL_WAIT => getSecondsUntilSend = RemainingInterval
    /\ state = STATE_ALIGN_WAIT => getSecondsUntilSend = UntilWindow

\* C29 amended: in IntervalWait it is the remaining interval, not adjusted for
\* alignment, while the interval has not elapsed; once the interval has
\* elapsed it is 0 when alignment is skipped and otherwise the seconds until
\* the alignment window.
C29_RemainingThenWindow ==
    /\ state \in {STATE_BOOT_SEND, STATE_READY_TO_SEND} => getSecondsUntilSend = 0
    /\ state = STATE_INTERVAL_WAIT =>
          getSecondsUntilSend =
              IF RemainingInterval > 0 THEN RemainingInterval
              ELSE IF shouldSkipAlignment THEN 0
              ELSE UntilWindow
    /\ state = STATE_ALIGN_WAIT => getSecondsUntilSend = UntilWindow

C29_Witness ==
    /\ state = STATE_INTERVAL_WAIT
    /\ RemainingInterval = 0
    /\ ~shouldSkipAlignment
    /\ secondOfMinute = 52
    /\ alignToSecond = 59
    /\ getSecondsUntilSend = 7

\* C30: getSecondsUntilSend() is 0 whenever a shouldSend() made at the same
\* instant would return true.
C30_ZeroWhenReady ==
    shouldSendOutcome.returned => getSecondsUntilSend = 0

\* C31: a shouldSend() made in IntervalWait with the interval elapsed,
\* alignment applying and the second already in [alignToSecond, 59] records
\* alignWaitStartTime = now, ends in ReadyToSend and returns true; no
\* shouldSend() leaves the scheduler in AlignWait when the second it was made
\* at is inside the window.
C31_ImmediateAlignment ==
    /\ []((lastCall = "shouldSend" /\ state = STATE_ALIGN_WAIT) => ~isAlignedSecond)
    /\ [][(/\ lastCall' = "shouldSend"
           /\ state = STATE_INTERVAL_WAIT
           /\ hasIntervalElapsed
           /\ timeSynced
           /\ intervalSeconds >= 60
           /\ secondOfMinute \in alignToSecond..59)
          => (/\ alignWaitStartTime' = currentTime
              /\ state' = STATE_READY_TO_SEND
              /\ result')]_vars

C31_Witness ==
    /\ lastCall = "shouldSend"
    /\ prevState = STATE_INTERVAL_WAIT
    /\ state = STATE_READY_TO_SEND
    /\ result
    /\ timeSynced
    /\ intervalSeconds >= 60
    /\ secondOfMinute \in alignToSecond..59
    /\ alignWaitStartTime = currentTime
    /\ alignWaitStartTime # U32(0)

C33_UnknownStateFailSafe ==
    /\ [](state = STATE_BOOT_SEND =>
            (shouldSendOutcome.returned /\ shouldSendOutcome.state = STATE_BOOT_SEND))
    /\ [][(lastCall' = "shouldSend" /\ state \notin SchedulerState)
            => (state' = STATE_BOOT_SEND /\ result')]_vars
    /\ [][(lastCall = "shouldSend" /\ result /\ lastCall' = "shouldSend") => result']_vars

C33_Witness ==
    /\ lastCall = "shouldSend"
    /\ prevState = STATE_UNKNOWN
    /\ state = STATE_BOOT_SEND
    /\ result
    /\ sent
    /\ ~hasIntervalElapsed

\* C34: shouldSend() returns true exactly when the state it leaves is
\* BootSend or ReadyToSend, and false exactly when the state it leaves is
\* IntervalWait or AlignWait.
C34_ResultMatchesState ==
    /\ shouldSendOutcome.returned <=>
           shouldSendOutcome.state \in {STATE_BOOT_SEND, STATE_READY_TO_SEND}
    /\ ~shouldSendOutcome.returned <=>
           shouldSendOutcome.state \in {STATE_INTERVAL_WAIT, STATE_ALIGN_WAIT}
    /\ lastCall = "shouldSend" =>
          /\ result <=> state \in {STATE_BOOT_SEND, STATE_READY_TO_SEND}
          /\ ~result <=> state \in {STATE_INTERVAL_WAIT, STATE_ALIGN_WAIT}

C34_Witness ==
    /\ lastCall = "shouldSend"
    /\ prevState = STATE_ALIGN_WAIT
    /\ state = STATE_READY_TO_SEND
    /\ result
    /\ ~isAlignedSecond
    /\ hasAlignWaitTimedOut

\* C35: the state changes only by recordSend(), which always ends in
\* IntervalWait, and by shouldSend() from IntervalWait to AlignWait or
\* ReadyToSend and from AlignWait to ReadyToSend; BootSend is not entered
\* again once recordSend() has been called.
C35_OnlyTheseTransitions ==
    /\ [](sent => state # STATE_BOOT_SEND)
    /\ [][(lastCall' = "recordSend" => state' = STATE_INTERVAL_WAIT)
          /\ (state' # state =>
                \/ lastCall' = "recordSend"
                \/ /\ lastCall' = "shouldSend"
                   /\ \/ /\ state = STATE_INTERVAL_WAIT
                         /\ state' \in {STATE_ALIGN_WAIT, STATE_READY_TO_SEND}
                      \/ /\ state = STATE_ALIGN_WAIT
                         /\ state' = STATE_READY_TO_SEND)]_vars

C35_Witness ==
    /\ lastCall = "shouldSend"
    /\ prevState = STATE_ALIGN_WAIT
    /\ state = STATE_READY_TO_SEND
    /\ sent
    /\ isAlignedSecond

\* C36: in AlignWait, shouldSend() returns true exactly when the second is
\* in [alignToSecond, 59] or 65 seconds have passed since AlignWait was
\* entered, also when the clock is no longer synchronized or the interval has
\* been set below 60; a call that returns false stays in AlignWait.
C36_SkipRuleNotReevaluated ==
    /\ state = STATE_ALIGN_WAIT =>
          (shouldSendOutcome.returned <=>
              \/ secondOfMinute \in alignToSecond..59
              \/ Ge32(Sub32(currentTime, alignWaitStartTime), U32(65)))
    /\ (lastCall = "shouldSend" /\ prevState = STATE_ALIGN_WAIT /\ ~result) =>
          state = STATE_ALIGN_WAIT

C36_Witness ==
    /\ lastCall = "shouldSend"
    /\ prevState = STATE_ALIGN_WAIT
    /\ state = STATE_ALIGN_WAIT
    /\ ~result
    /\ ~timeSynced
    /\ intervalSeconds < 60

\* C37: alignWaitStartTime changes only in a shouldSend() made in
\* IntervalWait with the interval elapsed and alignment applying (the call
\* that makes the transition to AlignWait), which sets it to the current
\* time; shouldSend() in AlignWait, recordSend() and the setters leave it
\* alone.
C37_AlignWaitStartWrittenOnce ==
    [][/\ (alignWaitStartTime' # alignWaitStartTime =>
              /\ lastCall' = "shouldSend"
              /\ state = STATE_INTERVAL_WAIT
              /\ hasIntervalElapsed
              /\ ~shouldSkipAlignment
              /\ alignWaitStartTime' = currentTime)
       /\ ((state = STATE_ALIGN_WAIT \/ lastCall' # "shouldSend") =>
              alignWaitStartTime' = alignWaitStartTime)]_vars

C37_Witness ==
    /\ lastCall = "shouldSend"
    /\ prevState = STATE_ALIGN_WAIT
    /\ state = STATE_ALIGN_WAIT
    /\ ~result
    /\ alignWaitStartTime = U32(60)
    /\ currentTime = U32(124)

\* C38: with second of minute = time mod 60 and shouldSend() called in every
\* second, the scheduler is never in AlignWait for more than 59 seconds, the
\* timeout is never reached there, and every shouldSend() that returns true
\* in AlignWait is made inside the alignment window.
C38_WindowBeforeTimeout ==
    /\ [](state = STATE_ALIGN_WAIT =>
            /\ sinceAlign <= 59
            /\ Sub32(currentTime, alignWaitStartTime) = U32(sinceAlign)
            /\ ~hasAlignWaitTimedOut)
    /\ [][(lastCall' = "shouldSend" /\ state = STATE_ALIGN_WAIT /\ result')
            => secondOfMinute \in alignToSecond..59]_vars

C38_Witness ==
    /\ lastCall = "shouldSend"
    /\ prevState = STATE_ALIGN_WAIT
    /\ state = STATE_READY_TO_SEND
    /\ result
    /\ alignToSecond = 59
    /\ secondOfMinute = 59
    /\ Sub32(currentTime, alignWaitStartTime) = U32(59)

\* 2^32 - n as a uint32_t, for 0 < n <= 65536
FromTop(n) == <<Half - 1, Half - n>>

\* how far the current time is below t
Below(t) == Sub32(t, currentTime)

\* C39 as stated: a current time lower than intervalStartTime makes
\* shouldSend() in IntervalWait take the interval as elapsed, and a current
\* time lower than alignWaitStartTime makes shouldSend() in AlignWait return
\* true.
C39_LowerTimeNeverStalls ==
    /\ (state = STATE_INTERVAL_WAIT /\ Lt32(currentTime, intervalStartTime)) =>
          shouldSendOutcome.state # STATE_INTERVAL_WAIT
    /\ (state = STATE_ALIGN_WAIT /\ Lt32(currentTime, alignWaitStartTime)) =>
          shouldSendOutcome.returned

\* C39 amended: the same when the current time is lower than
\* intervalStartTime by at most 2^32 - intervalSeconds, and lower than
\* alignWaitStartTime by at most 2^32 - 65.
C39_BackwardStepNeverStalls ==
    /\ (/\ state = STATE_INTERVAL_WAIT
        /\ Lt32(currentTime, intervalStartTime)
        /\ ~Lt32(FromTop(intervalSeconds), Below(intervalStartTime))) =>
          (hasIntervalElapsed /\ shouldSendOutcome.state # STATE_INTERVAL_WAIT)
    /\ (/\ state = STATE_ALIGN_WAIT
        /\ Lt32(currentTime, alignWaitStartTime)
        /\ ~Lt32(FromTop(65), Below(alignWaitStartTime))) =>
          (hasAlignWaitTimedOut /\ shouldSendOutcome.returned)
    /\ (/\ lastCall = "shouldSend"
        /\ prevState = STATE_ALIGN_WAIT
        /\ Lt32(currentTime, alignWaitStartTime)
        /\ ~Lt32(FromTop(65), Below(alignWaitStartTime))) =>
          (result /\ state = STATE_READY_TO_SEND)

C39_Witness ==
    /\ lastCall = "shouldSend"
    /\ prevState = STATE_ALIGN_WAIT
    /\ state = STATE_READY_TO_SEND
    /\ result
    /\ ~steady
    /\ ~isAlignedSecond
    /\ alignWaitStartTime = U32(70)
    /\ currentTime = U32(5)

\* C40: when a run of loop() in which shouldSend() returned true is over,
\* recordSend() has been called in it and the scheduler is in IntervalWait;
\* once a report has been attempted the scheduler is in IntervalWait or
\* AlignWait whenever loop() is between two runs.
C40_WaitingBetweenRuns ==
    IterationOver =>
        /\ decided = <<TRUE>> =>
              /\ sent
              /\ Len(calls) >= 1
              /\ calls[1] = "recordSend"
              /\ state = STATE_INTERVAL_WAIT
        /\ (sent \/ path # "none") =>
              state \in {STATE_INTERVAL_WAIT, STATE_ALIGN_WAIT}

C40_Witness ==
    /\ pc = "top"
    /\ decided = <<FALSE>>
    /\ path = "wifiFail"
    /\ sent
    /\ state = STATE_ALIGN_WAIT
    /\ lastCall = "shouldSend"

====
